---- MODULE Spec2Model ----
(***************************************************************************)
(* Folder Size Analyzer (src/src/App.tsx): the React component's state,    *)
(* the scanFolder handler split at its await points, and handleReveal.     *)
(*                                                                         *)
(* Every state of the model is a state of the component while the          *)
(* JavaScript event loop is idle: an action is one event-loop turn, i.e.   *)
(* the code that runs from the settling of one awaited promise (or a       *)
(* click) up to the next await or the return of the handler.               *)
(***************************************************************************)
EXTENDS Integers, Sequences, FiniteSets, TLC

(* ------------------------------ bounds --------------------------------- *)
\* longest directory listing readDir returns when one scan runs at a time
MaxEntries == 3
\* longest directory listing readDir returns when scans may overlap
MaxEntriesOverlap == 2
\* largest size (bytes) the size() lookup returns
MaxSize == 2
\* number of scanFolder invocations that can be in progress together
MaxInv == 2
\* number of handleReveal invocations that can be in progress together
MaxReveals == 1

(* --------------------------- program constants ------------------------- *)
BATCH_SIZE == 50
NullRef == 0
StaleRef == -1

(* ------------------------------- data ---------------------------------- *)
\* strings are sequences of characters, so that startsWith and join compute
NoFolder == <<>>
Folders == { <<"/", "x">>, <<"/", "y">> }
NoError == "null"
FailedToScan == "Failed to scan folder"
NoMetadata == "Couldn't read item metadata"
FailedToReveal == "Failed to reveal item"

\* the directory entries (DirEntry: name, isDirectory) a listing is made of
EntryUniverse ==
  { [name |-> <<".", "h">>, isDirectory |-> FALSE],
    [name |-> <<"a">>,      isDirectory |-> TRUE],
    [name |-> <<"b">>,      isDirectory |-> FALSE],
    [name |-> <<"c">>,      isDirectory |-> FALSE],
    [name |-> <<"d">>,      isDirectory |-> TRUE] }

\* listings of at most n entries; a directory holds each name once
Listings(n) ==
  UNION { { es \in [1..k -> EntryUniverse] :
              \A p, q \in 1..k : p # q => es[p].name # es[q].name } : k \in 0..n }

\* startsWith(".") of entry.name
startsWithDot(name) == Len(name) >= 1 /\ name[1] = "."

\* join(selected, entry.name) of the Tauri path API
join(dir, name) == dir \o <<"/">> \o name

\* the fixed disk used where scans may overlap: what each folder holds, in
\* the order readDir lists it, with the size of each child
diskContents(dir) ==
  IF dir = <<"/", "x">>
  THEN << [name |-> <<"b">>, isDirectory |-> FALSE, size |-> 1],
          [name |-> <<"a">>, isDirectory |-> TRUE, size |-> 0],
          [name |-> <<".", "h">>, isDirectory |-> FALSE, size |-> 1] >>
  ELSE << [name |-> <<"c">>, isDirectory |-> FALSE, size |-> 0],
          [name |-> <<"b">>, isDirectory |-> FALSE, size |-> 1] >>

\* readDir on the fixed disk returns the first k <= n children
diskListings(dir, n) ==
  { [p \in 1..k |-> [name |-> diskContents(dir)[p].name,
                     isDirectory |-> diskContents(dir)[p].isDirectory]] :
      k \in 0..(IF n < Len(diskContents(dir)) THEN n ELSE Len(diskContents(dir))) }

\* size(path) on the fixed disk
diskSizes(path) ==
  UNION { { diskContents(d)[p].size :
              p \in { q \in 1..Len(diskContents(d)) :
                        join(d, diskContents(d)[q].name) = path } } :
          d \in Folders }

Sizes == 0..MaxSize
Slots == 1..MaxInv

\* mutant of compare: the directories-first test is left out
compareSizeOnly(a, b) == b.size - a.size

\* the comparator of sortItems
compare(a, b) ==
  IF a.isDirectory /\ ~b.isDirectory THEN -1
  ELSE IF ~a.isDirectory /\ b.isDirectory THEN 1
  ELSE b.size - a.size

\* mutant of insertPos: an unstable sort, x goes before its equals
insertPosUnstable(s, x) ==
  IF \E p \in 1..Len(s) : compare(s[p], x) >= 0
  THEN CHOOSE p \in 1..Len(s) :
         /\ compare(s[p], x) >= 0
         /\ \A q \in 1..(p - 1) : compare(s[q], x) < 0
  ELSE Len(s) + 1

\* Array.prototype.sort is stable: x goes before the first element that the
\* comparator puts strictly after it
insertPos(s, x) ==
  IF \E p \in 1..Len(s) : compare(s[p], x) > 0
  THEN CHOOSE p \in 1..Len(s) :
         /\ compare(s[p], x) > 0
         /\ \A q \in 1..(p - 1) : compare(s[q], x) <= 0
  ELSE Len(s) + 1

insertItem(s, x) ==
  LET p == insertPos(s, x)
  IN  SubSeq(s, 1, p - 1) \o <<x>> \o SubSeq(s, p, Len(s))

RECURSIVE sortPrefix(_, _)
sortPrefix(s, n) ==
  IF n = 0 THEN <<>> ELSE insertItem(sortPrefix(s, n - 1), s[n])

sortItems(itemsToSort) == sortPrefix(itemsToSort, Len(itemsToSort))


(* ------------------------------- state --------------------------------- *)
VARIABLES
  \* useState / useRef of the component (lines 11-16)
  items, isLoading, selectedFolder, error, scannedCount, abortControllerRef,
  \* one scanFolder invocation per slot: the await it is suspended at
  \* ("idle" when the slot holds no invocation), and its locals: selected
  \* (line 37), the aborted flag of its AbortController (line 52), entries
  \* (line 55), the position idx of the for loop (line 63), fullPath (line
  \* 76), newItems, processedCount, failedCount (lines 56-61)
  pc, selected, aborted, entries, idx, fullPath, newItems, processedCount,
  failedCount,
  \* history: what the loop of an invocation did with each entry so far, the
  \* invocation that returned in the last event-loop turn, and the lists that
  \* turn passed to setItems
  lookups, ret, published,
  \* handleReveal invocations suspended at await revealItemInDir (line 121)
  pendingReveals

compVars == <<items, isLoading, selectedFolder, error, scannedCount,
              abortControllerRef>>
invVars == <<pc, selected, aborted, entries, idx, fullPath, newItems,
             processedCount, failedCount, lookups>>
vars == <<compVars, invVars, ret, published, pendingReveals>>

NoRet == [how |-> "none", selected |-> NoFolder, entries |-> <<>>, lookups |-> <<>>]

Init ==
  /\ items = <<>>
  /\ isLoading = FALSE
  /\ selectedFolder = NoFolder
  /\ error = NoError
  /\ scannedCount = 0
  /\ abortControllerRef = NullRef
  /\ pc = [i \in Slots |-> "idle"]
  /\ selected = [i \in Slots |-> NoFolder]
  /\ aborted = [i \in Slots |-> FALSE]
  /\ entries = [i \in Slots |-> <<>>]
  /\ idx = [i \in Slots |-> 0]
  /\ fullPath = [i \in Slots |-> <<>>]
  /\ newItems = [i \in Slots |-> <<>>]
  /\ processedCount = [i \in Slots |-> 0]
  /\ failedCount = [i \in Slots |-> 0]
  /\ lookups = [i \in Slots |-> <<>>]
  /\ ret = NoRet
  /\ published = {}
  /\ pendingReveals = 0

(* ------------------------ pieces of scanFolder ------------------------- *)
\* the locals of invocation i at the end of the turn
Locals(i, p, sel, ab, es, k, fp, ni, pcnt, fcnt, lk) ==
  /\ pc' = [pc EXCEPT ![i] = p]
  /\ selected' = [selected EXCEPT ![i] = sel]
  /\ aborted' = [aborted EXCEPT ![i] = ab]
  /\ entries' = [entries EXCEPT ![i] = es]
  /\ idx' = [idx EXCEPT ![i] = k]
  /\ fullPath' = [fullPath EXCEPT ![i] = fp]
  /\ newItems' = [newItems EXCEPT ![i] = ni]
  /\ processedCount' = [processedCount EXCEPT ![i] = pcnt]
  /\ failedCount' = [failedCount EXCEPT ![i] = fcnt]
  /\ lookups' = [lookups EXCEPT ![i] = lk]

\* invocation i returns: its locals are gone
Return(i, how, sel, es, lk) ==
  /\ Locals(i, "idle", NoFolder, FALSE, <<>>, 0, <<>>, <<>>, 0, 0, <<>>)
  /\ ret' = [how |-> how, selected |-> sel, entries |-> es, lookups |-> lk]
  /\ UNCHANGED pendingReveals

Log(r, s) == [r |-> r, size |-> s]

\* mutant of pushItem: the item is pushed twice
pushItemTwice(ni, entry, fp, s) ==
  LET it == [name |-> entry.name, path |-> fp, size |-> s,
             isDirectory |-> entry.isDirectory]
  IN  Append(Append(ni, it), it)

\* lines 79-84: newItems.push({name, path, size, isDirectory})
pushItem(ni, entry, fp, s) ==
  Append(ni, [name |-> entry.name, path |-> fp, size |-> s,
              isDirectory |-> entry.isDirectory])

\* mutant of skipHidden: dotfiles are not skipped
skipNothing(es, k) == k

\* lines 69-72: the index of the first entry from k on that is not skipped
RECURSIVE skipHidden(_, _)
skipHidden(es, k) ==
  IF k <= Len(es) /\ startsWithDot(es[k].name) THEN skipHidden(es, k + 1) ELSE k

\* line 103: the condition under which the metadata error is shown
noSizesRead(es, ni, fcnt) == Len(es) > 0 /\ Len(ni) = 0 /\ fcnt = Len(es)

\* line 90: the condition under which a batch is published
batchDue(pcnt, es) == pcnt % BATCH_SIZE = 0 \/ pcnt = Len(es)

\* lines 63-110: the for loop resumed at entry k, run up to the next await
\* (the join of the next entry that is not hidden), to the abort return, or
\* through the end of the loop to the end of the handler.  its and cnt are
\* items and scannedCount as the turn has set them so far, pub the lists
\* it has passed to setItems.
continueLoop(i, es, k, ni, pcnt, fcnt, lk, its, cnt, pub) ==
  IF k <= Len(es) /\ aborted[i]
  THEN \* lines 65-67
       /\ Return(i, "aborted", selected[i], es, lk)
       /\ items' = its
       /\ scannedCount' = cnt
       /\ published' = pub
       /\ abortControllerRef' =
            IF abortControllerRef = i THEN StaleRef ELSE abortControllerRef
       /\ UNCHANGED <<isLoading, error, selectedFolder>>
  ELSE LET j == skipHidden(es, k)
           lk2 == lk \o [n \in 1..(j - k) |-> Log("skip", 0)]
       IN  IF j <= Len(es)
           THEN \* line 76: await join
                /\ Locals(i, "join", selected[i], aborted[i], es, j, <<>>, ni,
                          pcnt, fcnt, lk2)
                /\ items' = its
                /\ scannedCount' = cnt
                /\ published' = pub
                /\ ret' = NoRet
                /\ UNCHANGED pendingReveals
                /\ UNCHANGED <<isLoading, error, selectedFolder,
                               abortControllerRef>>
           ELSE \* lines 99-110
                /\ Return(i, "completed", selected[i], es, lk2)
                /\ items' = sortItems(ni)
                /\ published' = pub \cup {sortItems(ni)}
                /\ error' = IF noSizesRead(es, ni, fcnt) THEN NoMetadata ELSE error
                /\ isLoading' = FALSE
                /\ abortControllerRef' = NullRef
                /\ scannedCount' = cnt
                /\ UNCHANGED selectedFolder

\* mutant of catchBlock: setIsLoading(false) is left out
catchBlockStillLoading(i, how) ==
  /\ Return(i, how, selected[i], entries[i], lookups[i])
  /\ published' = {}
  /\ error' = FailedToScan
  /\ abortControllerRef' = NullRef
  /\ UNCHANGED <<items, isLoading, selectedFolder, scannedCount>>

\* lines 111-116: the catch block of the handler
catchBlock(i, how) ==
  /\ Return(i, how, selected[i], entries[i], lookups[i])
  /\ published' = {}
  /\ error' = FailedToScan
  /\ isLoading' = FALSE
  /\ abortControllerRef' = NullRef
  /\ UNCHANGED <<items, selectedFolder, scannedCount>>

(* ------------------------------ actions -------------------------------- *)
\* mutant of buttonDisabled: the button is never disabled
buttonNeverDisabled == FALSE

\* line 139: disabled={isLoading}
buttonDisabled == isLoading

\* lines 28-37: a click on Select Folder calls scanFolder, which runs up to
\* the await of the folder dialog.  The new invocation takes the first free
\* slot.
Click(i) ==
  /\ ~buttonDisabled
  /\ pc[i] = "idle"
  /\ \A j \in Slots : j < i => pc[j] # "idle"
  /\ error' = NoError
  /\ aborted' = IF abortControllerRef \in Slots
                THEN [aborted EXCEPT ![abortControllerRef] = TRUE]
                ELSE aborted
  /\ pc' = [pc EXCEPT ![i] = "open"]
  /\ ret' = NoRet
  /\ UNCHANGED pendingReveals
  /\ published' = {}
  /\ UNCHANGED <<items, isLoading, selectedFolder, scannedCount,
                 abortControllerRef, selected, entries, idx, fullPath,
                 newItems, processedCount, failedCount, lookups>>

\* the same click where the folder dialog is modal: no click while it is open
ClickModal(i) ==
  /\ \A j \in Slots : pc[j] # "open"
  /\ Click(i)

\* lines 37-55: the dialog resolves, with a folder or with null
OpenResolve(i) ==
  /\ pc[i] = "open"
  /\ \E sel \in Folders \cup {NoFolder} :
       IF sel = NoFolder
       THEN \* lines 42-44
            /\ Return(i, "dismissed", NoFolder, <<>>, <<>>)
            /\ published' = {}
            /\ UNCHANGED compVars
       ELSE /\ selectedFolder' = sel
            /\ isLoading' = TRUE
            /\ items' = <<>>
            /\ scannedCount' = 0
            /\ abortControllerRef' = i
            /\ Locals(i, "readDir", sel, FALSE, <<>>, 0, <<>>, <<>>, 0, 0, <<>>)
            /\ ret' = NoRet
            /\ UNCHANGED pendingReveals
            /\ published' = {<<>>}
            /\ UNCHANGED error

\* line 37 rejects: the catch block runs
OpenReject(i) ==
  /\ pc[i] = "open"
  /\ catchBlock(i, "openFailed")

\* lines 55-63: readDir resolves with a listing out of L
ReadDirResolve(i, L) ==
  /\ pc[i] = "readDir"
  /\ \E es \in L :
       continueLoop(i, es, 1, <<>>, 0, 0, <<>>, items, scannedCount, {})

\* line 55 rejects: the catch block runs
ReadDirReject(i) ==
  /\ pc[i] = "readDir"
  /\ catchBlock(i, "readFailed")

\* lines 76-77: join resolves, size is called
JoinResolve(i) ==
  /\ pc[i] = "join"
  /\ pc' = [pc EXCEPT ![i] = "size"]
  /\ fullPath' = [fullPath EXCEPT ![i] = join(selected[i], entries[i][idx[i]].name)]
  /\ ret' = NoRet
  /\ UNCHANGED pendingReveals
  /\ published' = {}
  /\ UNCHANGED <<compVars, selected, aborted, entries, idx, newItems,
                 processedCount, failedCount, lookups>>

\* mutant of lookupFailed: the inner try/catch is missing, so the rejection
\* reaches the catch block of the handler
lookupFailedAborts(i) ==
  /\ Return(i, "readFailed", selected[i], entries[i],
            Append(lookups[i], Log("fail", 0)))
  /\ published' = {}
  /\ error' = FailedToScan
  /\ isLoading' = FALSE
  /\ abortControllerRef' = NullRef
  /\ UNCHANGED <<items, selectedFolder, scannedCount>>

\* lines 93-96 after a rejection of join or of size
lookupFailed(i) ==
  continueLoop(i, entries[i], idx[i] + 1, newItems[i], processedCount[i],
               failedCount[i] + 1, Append(lookups[i], Log("fail", 0)),
               items, scannedCount, {})

JoinReject(i) ==
  /\ pc[i] = "join"
  /\ lookupFailed(i)

\* lines 77-92: size resolves with a size s out of S
SizeResolve(i, S) ==
  /\ pc[i] = "size"
  /\ \E s \in S :
       LET entry == entries[i][idx[i]]
           ni == pushItem(newItems[i], entry, fullPath[i], s)
           pcnt == processedCount[i] + 1
           due == batchDue(pcnt, entries[i])
           its == IF due THEN sortItems(ni) ELSE items
           pub == IF due THEN {sortItems(ni)} ELSE {}
       IN  continueLoop(i, entries[i], idx[i] + 1, ni, pcnt, failedCount[i],
                        Append(lookups[i], Log("ok", s)), its, pcnt, pub)

SizeReject(i) ==
  /\ pc[i] = "size"
  /\ lookupFailed(i)

\* lines 119-121: a double click on a displayed item calls handleReveal,
\* which runs up to the await of revealItemInDir
RevealClick ==
  /\ Len(items) > 0
  /\ pendingReveals < MaxReveals
  /\ pendingReveals' = pendingReveals + 1
  /\ ret' = NoRet
  /\ published' = {}
  /\ UNCHANGED <<compVars, invVars>>

\* line 121 resolves: handleReveal returns
RevealResolve ==
  /\ pendingReveals > 0
  /\ pendingReveals' = pendingReveals - 1
  /\ ret' = NoRet
  /\ published' = {}
  /\ UNCHANGED <<compVars, invVars>>

\* line 121 rejects: lines 122-125
RevealReject ==
  /\ pendingReveals > 0
  /\ pendingReveals' = pendingReveals - 1
  /\ error' = FailedToReveal
  /\ ret' = NoRet
  /\ published' = {}
  /\ UNCHANGED <<items, isLoading, selectedFolder, scannedCount,
                 abortControllerRef, invVars>>

(* --------------------------- specifications ---------------------------- *)
\* the folder dialog is modal: one scanFolder invocation at a time
NextModal ==
  \/ \E i \in Slots :
       \/ ClickModal(i)
       \/ OpenResolve(i)
       \/ OpenReject(i)
       \/ ReadDirResolve(i, Listings(MaxEntries))
       \/ ReadDirReject(i)
       \/ JoinResolve(i)
       \/ JoinReject(i)
       \/ SizeResolve(i, Sizes)
       \/ SizeReject(i)
  \/ RevealClick
  \/ RevealResolve
  \/ RevealReject

Spec == Init /\ [][NextModal]_vars

\* the button stays enabled while a folder dialog is open: invocations overlap
NextOverlap ==
  \/ \E i \in Slots :
       \/ Click(i)
       \/ OpenResolve(i)
       \/ OpenReject(i)
       \/ ReadDirResolve(i, diskListings(selected[i], MaxEntriesOverlap))
       \/ ReadDirReject(i)
       \/ JoinResolve(i)
       \/ JoinReject(i)
       \/ SizeResolve(i, diskSizes(fullPath[i]))
       \/ SizeReject(i)
  \/ RevealClick
  \/ RevealResolve
  \/ RevealReject

SpecOverlap == Init /\ [][NextOverlap]_vars

(* ------------------------------- claims -------------------------------- *)
\* directories before files, and sizes non-increasing within a kind
ordered(l) ==
  \A p, q \in 1..Len(l) :
    p < q =>
      /\ ~(~l[p].isDirectory /\ l[q].isDirectory)
      /\ (l[p].isDirectory = l[q].isDirectory => l[p].size >= l[q].size)

okIdx(lk) == { k \in 1..Len(lk) : lk[k].r = "ok" }
failedIdx(lk) == { k \in 1..Len(lk) : lk[k].r = "fail" }

\* the item the scan of sel must report for entry k of es
expectedItem(sel, es, lk, k) ==
  [name |-> es[k].name, path |-> join(sel, es[k].name), size |-> lk[k].size,
   isDirectory |-> es[k].isDirectory]

charCode(c) ==
  CASE c = "." -> 46 [] c = "/" -> 47 [] c = "a" -> 97 [] c = "b" -> 98
    [] c = "c" -> 99 [] c = "d" -> 100 [] c = "h" -> 104 [] c = "x" -> 120
    [] c = "y" -> 121

\* n sorts strictly before m as a string
nameBefore(n, m) ==
  \E k \in 1..(Len(n) + 1) :
    /\ \A j \in 1..(k - 1) : j <= Len(m) /\ n[j] = m[j]
    /\ \/ k = Len(n) + 1 /\ Len(m) >= k
       \/ k <= Len(n) /\ k <= Len(m) /\ charCode(n[k]) < charCode(m[k])

entryIndex(es, name) == CHOOSE k \in 1..Len(es) : es[k].name = name

sameKindAndSize(a, b) == a.isDirectory = b.isDirectory /\ a.size = b.size

\* C1: every list passed to setItems, by whichever of the overlapping scans,
\* and so every displayed list, has all directories before all files and,
\* within a kind, sizes non-increasing.
C1_PublishedListsOrdered ==
  /\ ordered(items)
  /\ \A l \in published : ordered(l)

\* a scan publishes a directory ahead of a larger file that readDir listed
\* first, while another invocation is in progress
C1_Witness ==
  /\ \E i \in Slots : pc[i] # "idle"
  /\ \E l \in published :
       /\ Len(l) >= 2
       /\ l[1].isDirectory /\ ~l[2].isDirectory /\ l[1].size < l[2].size

\* C2 as stated: in the final list of a completed scan, items of the same kind
\* and size are ordered by name.
C2_TiesOrderedByName ==
  ret.how = "completed" =>
    \A p, q \in 1..Len(items) :
      (p < q /\ sameKindAndSize(items[p], items[q])) =>
        nameBefore(items[p].name, items[q].name)

\* C2 amended: in the final list of a completed scan, items of the same kind
\* and size keep the order in which readDir returned their entries.
C2_TiesKeepReadDirOrder ==
  ret.how = "completed" =>
    \A p, q \in 1..Len(items) :
      (p < q /\ sameKindAndSize(items[p], items[q])) =>
        entryIndex(ret.entries, items[p].name) < entryIndex(ret.entries, items[q].name)

\* a completed scan whose final list holds a tie in the order opposite to
\* the name order
C2_Witness ==
  /\ ret.how = "completed"
  /\ \E p, q \in 1..Len(items) :
       /\ p < q /\ sameKindAndSize(items[p], items[q])
       /\ nameBefore(items[q].name, items[p].name)

\* C3: when a scan completes, the final list holds exactly one item for each
\* entry whose size lookup succeeded and nothing else, and scannedCount is
\* the length of the list.
C3_OneItemPerSuccessfulEntry ==
  ret.how = "completed" =>
    /\ Len(items) = Cardinality(okIdx(ret.lookups))
    /\ \A k \in okIdx(ret.lookups) :
         Cardinality({ m \in 1..Len(items) :
           items[m] = expectedItem(ret.selected, ret.entries, ret.lookups, k) }) = 1
    /\ \A k \in okIdx(ret.lookups) : ~startsWithDot(ret.entries[k].name)
    /\ scannedCount = Len(items)

\* a completed scan with two successful lookups and at least one entry that
\* was hidden or whose lookup failed
C3_Witness ==
  /\ ret.how = "completed"
  /\ Cardinality(okIdx(ret.lookups)) >= 2
  /\ Len(ret.entries) > Cardinality(okIdx(ret.lookups))

\* C4: no displayed or published item has a name starting with ".", and the
\* loop awaits no join and no size for such an entry: each one is skipped.
C4_HiddenEntriesSkipped ==
  /\ \A l \in published \cup {items} :
       \A m \in 1..Len(l) : ~startsWithDot(l[m].name)
  /\ \A i \in Slots :
       /\ pc[i] \in {"join", "size"} => ~startsWithDot(entries[i][idx[i]].name)
       /\ \A k \in 1..Len(lookups[i]) :
            startsWithDot(entries[i][k].name) => lookups[i][k].r = "skip"
  /\ \A k \in 1..Len(ret.lookups) :
       startsWithDot(ret.entries[k].name) => ret.lookups[k].r = "skip"

\* a completed scan of a listing that holds a hidden entry and reports items
C4_Witness ==
  /\ ret.how = "completed"
  /\ Len(items) > 0
  /\ \E k \in 1..Len(ret.entries) : startsWithDot(ret.entries[k].name)

\* C5: an invocation in which a join or a size lookup failed still runs
\* through its whole listing and completes; every entry whose lookup
\* succeeded is in the final list with its size; and if one succeeded, the
\* scan ends with isLoading false and without a scan error message.
C5_LookupFailureIsolated ==
  (ret.how # "none" /\ failedIdx(ret.lookups) # {}) =>
    /\ ret.how = "completed"
    /\ Len(ret.lookups) = Len(ret.entries)
    /\ \A k \in okIdx(ret.lookups) :
         \E m \in 1..Len(items) :
           items[m] = expectedItem(ret.selected, ret.entries, ret.lookups, k)
    /\ okIdx(ret.lookups) # {} =>
         ~isLoading /\ error \notin {FailedToScan, NoMetadata}

\* a completed scan whose first lookup failed and a later one succeeded
C5_Witness ==
  /\ ret.how = "completed"
  /\ \E k, m \in 1..Len(ret.lookups) :
       k < m /\ k \in failedIdx(ret.lookups) /\ m \in okIdx(ret.lookups)
  /\ Len(items) > 0

\* C6 as stated: an invocation ends with an error message set by scanFolder
\* only if readDir on the root folder rejected; then no size was looked up,
\* the list is empty, isLoading is false and the abort-controller reference
\* is null.
C6_ErrorOnlyOnRootRead ==
  (ret.how # "none" /\ error \in {FailedToScan, NoMetadata}) =>
    /\ ret.how = "readFailed"
    /\ ret.lookups = <<>>
    /\ items = <<>>
    /\ ~isLoading
    /\ abortControllerRef = NullRef

\* C6 amended: an invocation ends with an error message set by scanFolder
\* only if the dialog call open rejected or readDir rejected ("Failed to scan
\* folder"), or if it completed a listing that is not empty in which the
\* lookup of every entry failed ("Couldn't read item metadata").  When
\* readDir rejected, nothing was listed, no size was looked up and the list
\* is empty; when open rejected, no folder was selected and nothing was
\* listed; in all three cases isLoading is false and the abort-controller
\* reference is null.
C6_ErrorOnlyOnRejectOrNoSizes ==
  /\ (ret.how # "none" /\ error \in {FailedToScan, NoMetadata}) =>
       /\ \/ ret.how \in {"openFailed", "readFailed"} /\ error = FailedToScan
          \/ /\ ret.how = "completed" /\ error = NoMetadata
             /\ Len(ret.entries) > 0
             /\ failedIdx(ret.lookups) = 1..Len(ret.entries)
             /\ items = <<>>
       /\ ~isLoading
       /\ abortControllerRef = NullRef
  /\ ret.how = "readFailed" =>
       /\ error = FailedToScan
       /\ ret.selected \in Folders
       /\ ret.entries = <<>> /\ ret.lookups = <<>>
       /\ items = <<>>
  /\ ret.how = "openFailed" =>
       /\ error = FailedToScan
       /\ ret.selected = NoFolder
       /\ ret.entries = <<>> /\ ret.lookups = <<>>

\* a scan whose readDir rejected
C6_Witness ==
  /\ ret.how = "readFailed"
  /\ ret.selected \in Folders
  /\ selectedFolder = ret.selected

\* C7 as stated: a completed scan that listed entries, attempted a lookup
\* and read no size at all shows the metadata error.
C7_MetadataErrorWhenNoSizeRead ==
  (/\ ret.how = "completed"
   /\ Len(ret.entries) > 0
   /\ failedIdx(ret.lookups) # {}
   /\ okIdx(ret.lookups) = {}) =>
    error = NoMetadata

\* C8 as stated: of two invocations that are both in their entry loop, one
\* has its abort signal set.
C8_LaterScanAbortsEarlier ==
  \A i, j \in Slots :
    (i # j /\ pc[i] \in {"join", "size"} /\ pc[j] \in {"join", "size"}) =>
      aborted[i] \/ aborted[j]

\* C9 as stated: with no invocation in progress and no error shown, every
\* displayed item is a child of the displayed folder.
C9_ItemsBelongToSelectedFolder ==
  ((\A i \in Slots : pc[i] = "idle") /\ error = NoError) =>
    \A m \in 1..Len(items) :
      items[m].path = join(selectedFolder, items[m].name)

\* C10: at every await point isLoading is true exactly when
\* abortControllerRef.current is non-null, and isLoading is false whenever
\* no invocation is in progress.
C10_LoadingMatchesController ==
  /\ isLoading <=> (abortControllerRef # NullRef)
  /\ (\A i \in Slots : pc[i] = "idle") => ~isLoading

\* the last of two overlapping scans has returned (the one that completed
\* had been overtaken by a later folder selection), and the button is enabled
C10_Witness ==
  /\ \A i \in Slots : pc[i] = "idle"
  /\ ret.how = "completed"
  /\ ret.selected # selectedFolder
  /\ ~isLoading

====
